---- MODULE Spec2Model ----
(***************************************************************************)
(* Coverages API (src/app.py): a token-authenticated REST API around the   *)
(* single table COVERAGES.  The state is the table, the identity counter   *)
(* of its primary key column, and the last request with its response.      *)
(* Every handler is one action; the order of the decorators of a handler   *)
(* (input validation, output, authentication) is the order of its checks.  *)
(* Strings are strings; Chars gives the characters of one.                 *)
(***************************************************************************)
EXTENDS Integers, Sequences, FiniteSets

VARIABLES table, identity, request, response, everUsed, issued, lastChange

vars == <<table, identity, request, response, everUsed, issued, lastChange>>

(* ------------------------- requests and changes ------------------------- *)

\* A request: the handler it is routed to, the token of its API_TOKEN
\* header, the text or the number of its path, its query string and its
\* JSON body.
Req(op, token, text, cid, query, json) ==
    [op |-> op, token |-> token, text |-> text, cid |-> cid,
     query |-> query, json |-> json]

NoQuery == [k \in {} |-> 0]
NoJson == [f \in {} |-> ""]

\* The last change of the table: the creation or the deletion of a record.
Change(kind, cid) == [cid |-> cid, kind |-> kind]

(* ------------------------------ bounds --------------------------------- *)

\* The largest primary key the model lets the storage layer hand out
\* before create requests are no longer generated.
MaxCid == 3

(* --------------------------- program constants -------------------------- *)

\* Length(0, 255) of every field of CoverageInSchema.
MaxLen == 255
\* Range(max=255) of per_page.
MaxPerPage == 255
\* load_default of per_page and of page.
DefaultPerPage == 20
DefaultPage == 1

Fields ==
    {"shortname", "ceid", "motion", "ptsauto", "ptsda", "mgrdaat",
     "bpspubcloud", "vadptspow", "vadptsstor", "vadptssw", "crosstps",
     "bpspow", "bpsstor", "bpsz", "bpsda", "bpsauto", "bpssec", "bpssus",
     "ptspow", "ptsstor", "ptsz", "ptssec", "ptssus", "ibmfin"}

Sample == "Sample"
Demonstration == "Demonstration"

\* The records inserted after table recreation, in insertion order.
sample_coverages ==
    << [f \in Fields |-> Sample], [f \in Fields |-> Demonstration] >>

\* The token table: the configured secret mapped to its user name.
tokens == [t \in {"API_TOKEN"} |-> "appuser"]

None == "None"

(* ------------------------------ strings --------------------------------- *)

\* The string of n letters x.
RECURSIVE Pad(_)
Pad(n) ==
    IF n = 0 THEN ""
    ELSE Pad(n \div 2) \o Pad(n \div 2) \o (IF n % 2 = 1 THEN "x" ELSE "")

\* The characters of a string, for the strings of the model.
Chars(s) ==
    CASE s = "Sample" -> <<"S", "a", "m", "p", "l", "e">>
      [] s = "Demonstration" ->
            <<"D", "e", "m", "o", "n", "s", "t", "r", "a", "t", "i", "o", "n">>
      [] s = "Sam" -> <<"S", "a", "m">>
      [] s = "sAM" -> <<"s", "A", "M">>
      [] s = "sam" -> <<"s", "a", "m">>
      [] s = "25Sam25" -> <<"2", "5", "S", "a", "m", "2", "5">>
      [] s = "mo" -> <<"m", "o">>
      [] s = "z" -> <<"z">>
      [] s = "_" -> <<"_">>
      [] s = Pad(Len(s)) -> [i \in 1..Len(s) |-> "x"]

\* Case folding of ilike, on the letters the model uses.
Lower(c) ==
    CASE c = "S" -> "s"
      [] c = "A" -> "a"
      [] c = "M" -> "m"
      [] c = "D" -> "d"
      [] OTHER -> c

LowerStr(s) == [i \in 1..Len(s) |-> Lower(s[i])]

\* SQL LIKE: % matches any run of characters, _ any single character.
RECURSIVE Like(_, _)
Like(s, p) ==
    IF p = <<>> THEN s = <<>>
    ELSE IF Head(p) = "%"
         THEN Like(s, Tail(p)) \/ (s # <<>> /\ Like(Tail(s), p))
         ELSE /\ s # <<>>
              /\ (Head(p) = "_" \/ Head(p) = Head(s))
              /\ Like(Tail(s), Tail(p))

\* column.ilike(p), for the value s of the column.
ilike(s, p) == Like(LowerStr(Chars(s)), LowerStr(p))

\* urllib.parse.quote_plus: letters, digits and _ . - ~ are kept, a space
\* becomes +, every other character becomes % and its two hex digits.
SafeChars ==
    {"S", "A", "M", "D", "a", "d", "e", "i", "l", "m", "n", "o", "p", "r",
     "s", "t", "x", "z", "2", "5", "_"}

QuoteChar(c) ==
    IF c \in SafeChars THEN <<c>>
    ELSE CASE c = " " -> <<"+">>
           [] c = "%" -> <<"%", "2", "5">>
           [] c = "+" -> <<"%", "2", "B">>

RECURSIVE quote_plus(_)
quote_plus(s) ==
    IF s = <<>> THEN <<>> ELSE QuoteChar(Head(s)) \o quote_plus(Tail(s))

\* t occurs in s, letter case ignored.
Contains(s, t) ==
    \E i \in 1..(Len(s) - Len(t) + 1) :
        SubSeq(LowerStr(Chars(s)), i, i + Len(t) - 1) = LowerStr(Chars(t))

(* ------------------------------ storage --------------------------------- *)

Cids(tbl) == {r.cid : r \in tbl}

Max(S) == CHOOSE m \in S : \A n \in S : n <= m

\* A key numbered after the largest key present (a deleted key comes back).
NextCidReusing(tbl, id) == IF tbl = {} THEN 1 ELSE Max(Cids(tbl)) + 1

\* A primary key column that the storage layer fills on insert: the next
\* value of the identity counter of the table.
NextCid(tbl, id) == id

\* db.session.add(CoverageModel(**data)) and the commit.
Insert(st, data) ==
    LET cid == NextCid(st.table, st.identity)
    IN [table |-> st.table \cup {[cid |-> cid, data |-> data]},
        identity |-> cid + 1,
        row |-> [cid |-> cid, data |-> data]]

\* A recreation that drops nothing.
DropAllKeepingRows(tbl, id) == [table |-> tbl, identity |-> id]

\* db.drop_all() and db.create_all(): an empty table whose identity
\* counter starts again.
DropAllCreateAll(tbl, id) == [table |-> {}, identity |-> 1]

RECURSIVE InsertAll(_, _)
InsertAll(st, list) ==
    IF list = <<>> THEN [table |-> st.table, identity |-> st.identity]
    ELSE InsertAll(Insert(st, Head(list)), Tail(list))

\* The table right after a recreation: the sample records alone.
Seeded == InsertAll(DropAllCreateAll({}, 1), sample_coverages)

(* ----------------------------- responses -------------------------------- *)

NoPagination == [page |-> 0, per_page |-> 0, pages |-> 0, total |-> 0]

Resp(status, error, message, rows, pagination) ==
    [status |-> status, error |-> error, message |-> message,
     rows |-> rows, pagination |-> pagination]

\* The status of a validation error is the framework's configured one.
ValidationStatus == {400, 422}

ValidationError(vs) ==
    Resp(vs, "ValidationFailure", "Validation error", {}, NoPagination)
Unauthorized ==
    Resp(401, "AuthenticationFailure", "Unauthorized", {}, NoPagination)
NotFound == Resp(404, "NotFound", "Not Found", {}, NoPagination)
Ok(status, message, rows) == Resp(status, "none", message, rows, NoPagination)

\* The responses the handlers give.
NoMatch == Ok(200, "", {})
NoContent == Ok(204, "", {})
DatabaseRecreated == Ok(200, "database recreated", {})
ConfirmationMissing ==
    Resp(400, "ValidationFailure", "confirmation is missing", {}, NoPagination)
Greeting == Ok(200, "This is the Coverage API server", {})

\* The last change of the table: none since it was recreated.
NoChange == Change("none", 0)

\* What a handler leaves behind: its response and the storage state.
Unchanged(resp) ==
    [table |-> table, identity |-> identity, resp |-> resp,
     change |-> lastChange, dropped |-> FALSE]

(* --------------------------- authentication ----------------------------- *)

verify_token(token) == IF token \in DOMAIN tokens THEN tokens[token] ELSE None

Authenticated(token) == verify_token(token) # None

(* ---------------------------- input schemas ----------------------------- *)

\* A schema that requires every field and bounds none.
CoverageInSchemaLoose(json) == \A f \in Fields : f \in DOMAIN json

\* CoverageInSchema: every field required, each of length 0..255.
CoverageInSchema(json) ==
    \A f \in Fields : f \in DOMAIN json /\ Len(json[f]) <= MaxLen

\* CoverageQuerySchema: defaults, and the cap on per_page.
QueryPage(query) ==
    IF "page" \in DOMAIN query THEN query["page"] ELSE DefaultPage
QueryPerPage(query) ==
    IF "per_page" \in DOMAIN query THEN query["per_page"] ELSE DefaultPerPage
\* A schema without the cap on per_page.
CoverageQuerySchemaUncapped(query) == TRUE

CoverageQuerySchema(query) == QueryPerPage(query) <= MaxPerPage

\* {'confirmation': Boolean(load_default=False)}: the texts read as true
\* and as false, among those the model uses; any other text is invalid.
Truthy == {"true", "1"}
Falsy == {"false", "0"}
ConfirmationValid(query) ==
    "confirmation" \in DOMAIN query =>
        query["confirmation"] \in Truthy \cup Falsy

\* A flag that is taken as given when it is absent.
ConfirmationDefaultTrue(query) ==
    IF "confirmation" \in DOMAIN query
    THEN query["confirmation"] \in Truthy ELSE TRUE

\* query['confirmation'], False when absent.
Confirmation(query) ==
    IF "confirmation" \in DOMAIN query
    THEN query["confirmation"] \in Truthy ELSE FALSE

(* ------------------------------ handlers -------------------------------- *)

\* Query.first(): any matching row (no ORDER BY is given), or nothing.
First(matches) ==
    IF matches = {} THEN {Unchanged(NoMatch)}
    ELSE {Unchanged(Ok(200, "", {r})) : r \in matches}

\* get_coverage_ceid: the outcomes of the handler body.
get_coverage_ceid(ceid) ==
    LET search == <<"%">> \o Chars(ceid) \o <<"%">>
    IN First({r \in table : ilike(r.data["ceid"], search)})

\* get_coverage_name: the outcomes of the handler body.
get_coverage_name(short_name) ==
    LET search == <<"%">> \o Chars(short_name) \o <<"%">>
        encoded_search == quote_plus(search)
    IN First({r \in table : ilike(r.data["shortname"], encoded_search)})

Min(a, b) == IF a <= b THEN a ELSE b

\* Query.paginate(page, per_page) with its default error_out: the rows of
\* the page (in no given order), and a not-found error for a page other
\* than the first that has no rows.
PageSize(page, per_page) ==
    LET left == Cardinality(table) - (page - 1) * per_page
    IN IF left <= 0 THEN 0 ELSE Min(per_page, left)

\* A pagination with error_out=False.
PaginateNoErrorOut(page, per_page) == FALSE

PaginateAborts(page, per_page) ==
    page < 1 \/ (PageSize(page, per_page) = 0 /\ page # 1)

\* pagination_builder: the page, its size, and the totals.
pagination_builder(page, per_page) ==
    [page |-> page, per_page |-> per_page,
     pages |-> IF per_page = 0 THEN 0
               ELSE (Cardinality(table) + per_page - 1) \div per_page,
     total |-> Cardinality(table)]

\* get_coverages: the outcomes of the handler body.
get_coverages(query) ==
    LET page == QueryPage(query)
        per_page == QueryPerPage(query)
    IN IF PaginateAborts(page, per_page) THEN {Unchanged(NotFound)}
       ELSE {Unchanged(Resp(200, "none", "", items,
                            pagination_builder(page, per_page))) :
                items \in {S \in SUBSET table :
                             Cardinality(S) = PageSize(page, per_page)}}

\* create_coverage: the outcome of the handler body.
create_coverage(data) ==
    LET st == Insert([table |-> table, identity |-> identity], data)
    IN [table |-> st.table, identity |-> st.identity,
        resp |-> Ok(201, "", {st.row}),
        change |-> Change("created", st.row.cid),
        dropped |-> FALSE]

\* A deletion that does not look the record up first.
delete_coverage_without_404(ceid) ==
    [table |-> {r \in table : r.cid # ceid},
     identity |-> identity,
     resp |-> NoContent,
     change |-> Change("deleted", ceid),
     dropped |-> FALSE]

\* delete_coverage: the outcome of the handler body.
delete_coverage(ceid) ==
    IF ceid \notin Cids(table) THEN Unchanged(NotFound)
    ELSE [table |-> {r \in table : r.cid # ceid},
          identity |-> identity,
          resp |-> NoContent,
          change |-> Change("deleted", ceid),
          dropped |-> FALSE]

\* create_database: the outcome of the handler body.
create_database(query) ==
    IF Confirmation(query)
    THEN LET st == InsertAll(DropAllCreateAll(table, identity),
                             sample_coverages)
         IN [table |-> st.table, identity |-> st.identity,
             resp |-> DatabaseRecreated,
             change |-> NoChange,
             dropped |-> TRUE]
    ELSE Unchanged(ConfirmationMissing)

\* print_default: the greeting.
print_default == Unchanged(Greeting)

(* ------------------------------ requests -------------------------------- *)

\* The tokens a client presents: the configured one, another string, and
\* none.
PresentedTokens == {"API_TOKEN", "wrong", ""}

\* The texts looked up: parts of the sample names in either case, a text
\* no record holds, and the LIKE wildcard for one character.
SearchTexts ==
    {"Sam", "sAM", "mo", "z", "_"}

\* The identifiers a client asks to delete.
CidInputs == 1..(MaxCid + 1)

\* The query strings of a listing: page and per_page, each given or not.
PageInputs == {2, 3}
PerPageInputs == {1, MaxPerPage, MaxPerPage + 1}
ListQueries ==
    {NoQuery}
    \cup {[k \in {"page"} |-> page] : page \in PageInputs}
    \cup {[k \in {"per_page"} |-> per_page] : per_page \in PerPageInputs}
    \cup {[k \in {"page", "per_page"} |-> IF k = "page" THEN page ELSE per_page] :
             page \in PageInputs, per_page \in PerPageInputs}

\* The query strings of a recreation: confirmation given or not.
RecreateQueries ==
    {NoQuery} \cup {[k \in {"confirmation"} |-> v] : v \in {"true", "false", "maybe"}}

\* The JSON bodies of a creation: every field set to one text; one field
\* at the length limit; one field over the limit; one field missing.
LowerSam == "sam"
QuotedSam == "25Sam25"
EdgeFields == {"shortname", "mgrdaat", "ibmfin"}
AllFields(v) == [f \in Fields |-> v]
ValidBodies ==
    {AllFields(LowerSam),
     [AllFields(QuotedSam) EXCEPT !["motion"] = Pad(MaxLen)]}
InvalidBodies ==
    {[AllFields(LowerSam) EXCEPT ![f] = Pad(MaxLen + 1)] : f \in EdgeFields}
    \cup {[g \in Fields \ {f} |-> LowerSam] : f \in EdgeFields}
CreateBodies == ValidBodies \cup InvalidBodies

(* ------------------------------- actions -------------------------------- *)

\* Before the first request.
NoRequest == Req("start", "", "", 0, NoQuery, NoJson)
NoResponse == Ok(0, "", {})

Init ==
    /\ table = Seeded.table
    /\ identity = Seeded.identity
    /\ request = NoRequest
    /\ response = NoResponse
    /\ everUsed = Cids(Seeded.table)
    /\ issued = Cids(Seeded.table)
    /\ lastChange = NoChange

\* One request handled: the response, the storage state it leaves, and the
\* record of the identifiers used so far.
Step(req, out) ==
    /\ request' = req
    /\ response' = out.resp
    /\ table' = out.table
    /\ identity' = out.identity
    /\ everUsed' = everUsed \cup Cids(out.table)
    /\ issued' = IF out.dropped THEN Cids(out.table)
                 ELSE issued \cup Cids(out.table)
    /\ lastChange' = out.change

\* GET /coverages/ceid/<string:ceid>: output, auth_required.
GetCoverageCeid ==
    \E token \in PresentedTokens, ceid \in SearchTexts :
        \E out \in (IF ~Authenticated(token) THEN {Unchanged(Unauthorized)}
                    ELSE get_coverage_ceid(ceid)) :
            Step(Req("get_coverage_ceid", token, ceid, 0, NoQuery, NoJson), out)

\* GET /coverages/name/<string:short_name>: output, auth_required.
GetCoverageName ==
    \E token \in PresentedTokens, short_name \in SearchTexts :
        \E out \in (IF ~Authenticated(token) THEN {Unchanged(Unauthorized)}
                    ELSE get_coverage_name(short_name)) :
            Step(Req("get_coverage_name", token, short_name, 0, NoQuery, NoJson),
                 out)

\* GET /coverages: input (query), output, auth_required.
GetCoverages ==
    \E token \in PresentedTokens, query \in ListQueries :
        \E out \in (IF ~CoverageQuerySchema(query)
                    THEN {Unchanged(ValidationError(vs)) : vs \in ValidationStatus}
                    ELSE IF ~Authenticated(token)
                    THEN {Unchanged(Unauthorized)}
                    ELSE get_coverages(query)) :
            Step(Req("get_coverages", token, "", 0, query, NoJson), out)

\* POST /coverages: input (json), output, auth_required.
CreateCoverage ==
    \E token \in PresentedTokens, data \in CreateBodies :
        /\ (CoverageInSchema(data) /\ Authenticated(token)) =>
               NextCid(table, identity) <= MaxCid
        /\ \E out \in (IF ~CoverageInSchema(data)
                       THEN {Unchanged(ValidationError(vs)) : vs \in ValidationStatus}
                       ELSE IF ~Authenticated(token)
                       THEN {Unchanged(Unauthorized)}
                       ELSE {create_coverage(data)}) :
               Step(Req("create_coverage", token, "", 0, NoQuery, data), out)

\* DELETE /coverages/ceid/<int:ceid>: output, auth_required.
DeleteCoverage ==
    \E token \in PresentedTokens, ceid \in CidInputs :
        Step(Req("delete_coverage", token, "", ceid, NoQuery, NoJson),
             IF ~Authenticated(token) THEN Unchanged(Unauthorized)
             ELSE delete_coverage(ceid))

\* POST /database/recreate: input (query), auth_required.
CreateDatabase ==
    \E token \in PresentedTokens, query \in RecreateQueries :
        \E out \in (IF ~ConfirmationValid(query)
                    THEN {Unchanged(ValidationError(vs)) : vs \in ValidationStatus}
                    ELSE IF ~Authenticated(token)
                    THEN {Unchanged(Unauthorized)}
                    ELSE {create_database(query)}) :
            Step(Req("create_database", token, "", 0, query, NoJson), out)

\* GET /: no authentication, whatever token is presented.
PrintDefault ==
    \E token \in PresentedTokens :
        Step(Req("print_default", token, "", 0, NoQuery, NoJson), print_default)

Next ==
    \/ GetCoverageCeid
    \/ GetCoverageName
    \/ GetCoverages
    \/ CreateCoverage
    \/ DeleteCoverage
    \/ CreateDatabase
    \/ PrintDefault

Spec == Init /\ [][Next]_vars

(* ------------------------------- claims --------------------------------- *)

DataOps ==
    {"get_coverage_ceid", "get_coverage_name", "get_coverages",
     "create_coverage", "delete_coverage", "create_database"}

\* Every field is present and at most n characters long.
AllFieldsWithin(json, n) ==
    \A f \in Fields : f \in DOMAIN json /\ Len(json[f]) <= n

\* The confirmation flag is false or absent.
NotConfirmed(query) ==
    "confirmation" \notin DOMAIN query \/ query["confirmation"] = "false"

\* The page and page size a listing request asks for.
AskedPage(query) == IF "page" \in DOMAIN query THEN query["page"] ELSE 1
AskedPerPage(query) ==
    IF "per_page" \in DOMAIN query THEN query["per_page"] ELSE 20

\* The short names, and the data, of the two sample records.
SampleNames == {Sample, Demonstration}
TwoSamples == {AllFields(Sample), AllFields(Demonstration)}

\* Page n of pages of the given size lies beyond the last page of tbl.
BeyondLast(tbl, n, size) == (n - 1) * size >= Cardinality(tbl)

\* C1: a data-access request whose token is not in the token table is
\* answered 401 whatever else it contains, and leaves the table unchanged.
C1_UnknownTokenAlways401 ==
    [][(request'.op \in DataOps /\ request'.token \notin DOMAIN tokens)
          => (response'.status = 401 /\ table' = table)]_vars

\* C2: an authenticated recreate request whose confirmation is false or
\* absent is refused with 400 "confirmation is missing" and changes neither
\* the table nor its identity counter.
C2_UnconfirmedRecreateRefused ==
    [][(/\ request'.op = "create_database"
        /\ request'.token \in DOMAIN tokens
        /\ NotConfirmed(request'.query))
          => (/\ response'.status = 400
              /\ response'.error = "ValidationFailure"
              /\ response'.message = "confirmation is missing"
              /\ table' = table
              /\ identity' = identity)]_vars

\* C2 witness: a refused recreate request on a table that creations and
\* deletions have changed since it was seeded.
C2_Witness ==
    /\ request.op = "create_database"
    /\ request.token \in DOMAIN tokens
    /\ "confirmation" \notin DOMAIN request.query
    /\ response.status = 400
    /\ Cardinality(table) = 1
    /\ 3 \in Cids(table)

\* C3: after a confirmed recreate request has completed, the table holds
\* the two sample records, named Sample and Demonstration, and nothing else.
C3_RecreateLeavesSamples ==
    (request.op = "create_database" /\ response.status = 200)
        => (/\ Cardinality(table) = 2
            /\ {r.data["shortname"] : r \in table} = SampleNames
            /\ {r.data : r \in table} = TwoSamples)

\* C3 witness: a confirmed recreate request completed after a record had
\* been created.
C3_Witness ==
    /\ request.op = "create_database"
    /\ response.status = 200
    /\ 3 \in everUsed

\* C4 as stated: an authenticated creation with every field present and at
\* most 255 characters answers 201 with an identifier no record ever had.
C4_IdentifierNeverUsedBefore ==
    [][(/\ request'.op = "create_coverage"
        /\ request'.token \in DOMAIN tokens
        /\ AllFieldsWithin(request'.json, 255))
          => (/\ response'.status = 201
              /\ Cardinality(response'.rows) = 1
              /\ \A r \in response'.rows : r.cid \notin everUsed)]_vars

\* C4 as amended: an authenticated creation with every field present and at
\* most 255 characters answers 201 with the stored record, whose identifier
\* no record has had since the table was last recreated.
C4_IdentifierFreshSinceRecreate ==
    [][(/\ request'.op = "create_coverage"
        /\ request'.token \in DOMAIN tokens
        /\ AllFieldsWithin(request'.json, 255))
          => (/\ response'.status = 201
              /\ Cardinality(response'.rows) = 1
              /\ \A r \in response'.rows :
                    /\ r.cid \notin issued
                    /\ r.data = request'.json
                    /\ r \in table')]_vars

\* C4 witness: a creation that succeeded after the record with the highest
\* identifier had been deleted.
C4_Witness ==
    /\ request.op = "create_coverage"
    /\ response.status = 201
    /\ 2 \notin Cids(table)
    /\ 3 \in Cids(table)

\* C5: deleting the identifier of the record just created answers 204 with
\* no content and removes that record alone; deleting an identifier again
\* after it was deleted, with no creation or recreation in between, answers
\* 404 and changes nothing.
C5_DeleteOnceThenNotFound ==
    [][(/\ request'.op = "delete_coverage"
        /\ request'.token \in DOMAIN tokens
        /\ lastChange.cid = request'.cid)
          => (/\ lastChange.kind = "created"
                    => (/\ response'.status = 204
                        /\ response'.rows = {}
                        /\ table' = {r \in table : r.cid # request'.cid}
                        /\ Cardinality(table') = Cardinality(table) - 1)
              /\ lastChange.kind = "deleted"
                    => (response'.status = 404 /\ table' = table))]_vars

\* C5 witness: the second deletion of the identifier of a created record,
\* answered 404.
C5_Witness ==
    /\ request.op = "delete_coverage"
    /\ request.token \in DOMAIN tokens
    /\ request.cid = 3
    /\ lastChange.kind = "deleted"
    /\ lastChange.cid = 3
    /\ response.status = 404

\* C6: an authenticated creation with a field missing or longer than 255
\* characters fails with ValidationFailure and writes nothing.
C6_OversizedCreateRejected ==
    [][(/\ request'.op = "create_coverage"
        /\ request'.token \in DOMAIN tokens
        /\ ~AllFieldsWithin(request'.json, 255))
          => (/\ response'.error = "ValidationFailure"
              /\ table' = table
              /\ identity' = identity)]_vars

\* C6 witness: a rejected creation whose last field has 256 characters.
C6_Witness ==
    /\ request.op = "create_coverage"
    /\ request.token \in DOMAIN tokens
    /\ "ibmfin" \in DOMAIN request.json
    /\ Len(request.json["ibmfin"]) = 256
    /\ response.error = "ValidationFailure"

\* C7: an authenticated lookup by CEID returns a record whose CEID contains
\* the text, letter case ignored, when there is one, and 404 when there is
\* none.
C7_CeidLookupFoundOr404 ==
    (request.op = "get_coverage_ceid" /\ request.token \in DOMAIN tokens)
        => IF \E r \in table : Contains(r.data["ceid"], request.text)
           THEN /\ response.status = 200
                /\ \E r \in response.rows : Contains(r.data["ceid"], request.text)
           ELSE response.status = 404

\* C8: an authenticated lookup by name returns a record whose short name
\* contains the text, letter case ignored, when there is one, and an empty
\* success response when there is none.
C8_NameLookupSubstring ==
    (request.op = "get_coverage_name" /\ request.token \in DOMAIN tokens)
        => /\ response.status = 200
           /\ IF \E r \in table : Contains(r.data["shortname"], request.text)
              THEN \E r \in response.rows :
                      Contains(r.data["shortname"], request.text)
              ELSE response.rows = {}

C10_PerPageCapAndDefaults ==
    (request.op = "get_coverages" /\ request.token \in DOMAIN tokens)
        => /\ AskedPerPage(request.query) > 255
                => (/\ response.error = "ValidationFailure"
                    /\ response.rows = {}
                    /\ response.pagination = NoPagination)
           /\ ("per_page" \notin DOMAIN request.query /\ response.status # 404)
                => (response.status = 200 /\ response.pagination.per_page = 20)
           /\ ("page" \notin DOMAIN request.query
                 /\ AskedPerPage(request.query) <= 255)
                => (response.status = 200 /\ response.pagination.page = 1)

\* C10 witness: a listing with per_page 256 and no page, rejected.
C10_Witness ==
    /\ request.op = "get_coverages"
    /\ request.token \in DOMAIN tokens
    /\ "page" \notin DOMAIN request.query
    /\ AskedPerPage(request.query) = 256
    /\ response.error = "ValidationFailure"

====
